---- MODULE Spec2Model ----
(***************************************************************************)
(* Realtime room synchronization server (Socket.IO handlers of the         *)
(* backend listed in README.md, lines 144-219), its completion endpoint    *)
(* (lines 225-314) and the browser client (frontend/src/App.tsx).          *)
(*                                                                         *)
(* Server state: the module-level `documents` map, and for every socket    *)
(* the closure variable `activeRoom` and the set of Socket.IO rooms it is  *)
(* in.  One action per handler.  Handlers run one at a time: `lastEvent`   *)
(* is the event whose handler has run and `sent` the messages it emitted   *)
(* to each connection; HandlerReturn hands them to the transport, after    *)
(* which the next event is dispatched.                                     *)
(*                                                                         *)
(* Spec is the server alone under any events, SpecCompletions the          *)
(* completion endpoint, SpecClients the server with one browser tab and    *)
(* another client, SpecOrder the server with the inboxes of its sockets.   *)
(***************************************************************************)
EXTENDS Integers, Sequences, FiniteSets, TLC

\* ---------------------------------------------------------------- bounds
NumConns == 2          \* sockets that connect when the server is taken alone
NumSockets == 3        \* socket ids in all
NumTabSockets == 2     \* of these, ids for the sockets of the browser tab
MaxTime  == 1          \* largest value Date.now() returns

Conns == 1..NumSockets

\* ------------------------------------------------------------ JS values
\* A payload field is a JavaScript value: a string, a number, or undefined
\* (the field is missing).
Str(s)    == [t |-> "string", v |-> s]
Undefined == [t |-> "undefined", v |-> ""]
Num42     == [t |-> "number", v |-> "42"]

RoomNames    == {"r1", "r2"}
Texts        == {"", "a"}       \* document contents a client may send
RoomIdInputs == {Undefined, Str("")} \cup {Str(r) : r \in RoomNames}
ContentInputs == {Num42} \cup {Str(s) : s \in Texts}
Cursors      == {[line |-> 1, ch |-> 2]}
NoCursor     == [line |-> -1, ch |-> -1]

Null   == "null"       \* activeRoom before any join
Absent == [content |-> "absent", updatedAt |-> -1]   \* documents.has(r) = false

VARIABLES
    documents,   \* Map<string, DocumentState>
    status,      \* per socket: "idle" (not yet connected), "open", "closed"
    activeRoom,  \* per socket: closure variable activeRoom
    rooms,       \* per socket: Socket.IO rooms the socket is in
    joined,      \* history: room ids for which a join_room was processed
    lastAccepted,\* history: content of the last accepted code_change per room
    lastEvent,   \* the event whose handler has run; type "none" between events
    sent         \* messages that handler emitted, per connection

vars == <<documents, status, activeRoom, rooms, joined, lastAccepted,
          lastEvent, sent>>

\* ------------------------------------------------------------- helpers
\* `!roomId` for the values above: undefined and "" are falsy.
Falsy(x) == x.t = "undefined" \/ (x.t = "string" /\ x.v = "")

\* `typeof content !== 'string'`
NotStringOnlyIfMissing(x) == x.t = "undefined"
NotStringOrEmpty(x) == x.t # "string" \/ x.v = ""
NotString(x) == x.t # "string"

Has(docs, r) == docs[r] # Absent

\* Date.now() never runs backwards: a reading is at least every earlier one, and
\* every reading the handlers take is stored as some room's updatedAt.
Max(S) == CHOOSE x \in S : \A y \in S : y <= x
Now == Max({0} \cup {documents[r].updatedAt : r \in RoomNames})

\* if (!documents.has(roomId)) documents.set(roomId, {content: '', updatedAt: Date.now()})
GetOrCreateReset(docs, r, t) == [docs EXCEPT ![r] = [content |-> "", updatedAt |-> t]]
GetOrCreate(docs, r, t) ==
    IF Has(docs, r) THEN docs
    ELSE [docs EXCEPT ![r] = [content |-> "", updatedAt |-> t]]

\* documents.set(roomId, {content, updatedAt: Date.now()})
SetDocumentKeepOld(docs, r, c, t) ==
    IF Has(docs, r) /\ docs[r].content # ""
    THEN [docs EXCEPT ![r] = [content |-> docs[r].content, updatedAt |-> t]]
    ELSE [docs EXCEPT ![r] = [content |-> c, updatedAt |-> t]]
SetDocument(docs, r, c, t) == [docs EXCEPT ![r] = [content |-> c, updatedAt |-> t]]

\* socket.join(roomId)
SocketJoin(rms, c, r) == [rms EXCEPT ![c] = @ \cup {r}]

\* activeRoom = roomId  (a variable of the connection's closure)
BindShared(ar, c, r) == [d \in Conns |-> r]
Bind(ar, c, r) == [ar EXCEPT ![c] = r]

\* socket.to(roomId): every socket in the room except the sender
OthersWithSender(rms, c, r) == {d \in Conns : r \in rms[d]}
OthersEverybody(rms, c, r) == {d \in Conns : rms[d] # {}} \ {c}
Others(rms, c, r) == {d \in Conns : r \in rms[d]} \ {c}

NoMessages == [d \in Conns |-> <<>>]

\* socket.emit(type, payload): to the socket itself only
EmitToAll(c, msg) == [d \in Conns |-> IF status[d] = "open" THEN <<msg>> ELSE <<>>]
Emit(c, msg) == [d \in Conns |-> IF d = c THEN <<msg>> ELSE <<>>]

\* socket.to(roomId).emit(type, payload)
Broadcast(rms, c, r, msg) ==
    [d \in Conns |-> IF d \in Others(rms, c, r) THEN <<msg>> ELSE <<>>]

\* the messages of two successive emits, in order
Then(out1, out2) == [d \in Conns |-> out1[d] \o out2[d]]

Event(type, c, roomId, content, cursor) ==
    [type |-> type, conn |-> c, roomId |-> roomId, content |-> content,
     cursor |-> cursor]
NoEvent == Event("none", 0, Undefined, Undefined, NoCursor)

\* ---------------------------------------------------------------- Init
Init ==
    /\ documents = [r \in RoomNames |-> Absent]
    /\ status = [c \in Conns |-> "idle"]
    /\ activeRoom = [c \in Conns |-> Null]
    /\ rooms = [c \in Conns |-> {}]
    /\ joined = {}
    /\ lastAccepted = [r \in RoomNames |-> Undefined]
    /\ lastEvent = NoEvent
    /\ sent = NoMessages

\* io.on('connection'): let activeRoom = null
Connect(c) ==
    /\ lastEvent = NoEvent
    /\ status[c] = "idle"
    /\ status' = [status EXCEPT ![c] = "open"]
    /\ activeRoom' = [activeRoom EXCEPT ![c] = Null]
    /\ lastEvent' = Event("connection", c, Undefined, Undefined, NoCursor)
    /\ sent' = NoMessages
    /\ UNCHANGED <<documents, rooms, joined, lastAccepted>>

\* socket.on('join_room')
JoinRoom(c, roomId, t) ==
    /\ lastEvent = NoEvent
    /\ status[c] = "open"
    /\ lastEvent' = Event("join_room", c, roomId, Undefined, NoCursor)
    /\ UNCHANGED <<status, lastAccepted>>
    /\ IF Falsy(roomId)
       THEN /\ t = Now
            /\ sent' = NoMessages
            /\ UNCHANGED <<documents, activeRoom, rooms, joined>>
       ELSE LET r == roomId.v IN
            /\ Has(documents, r) => t = Now
            /\ activeRoom' = Bind(activeRoom, c, r)
            /\ rooms' = SocketJoin(rooms, c, r)
            /\ documents' = GetOrCreate(documents, r, t)
            /\ joined' = joined \cup {r}
            /\ sent' = Then(
                 Emit(c, [type |-> "initial_state", payload |-> documents'[r]]),
                 Broadcast(rooms', c, r,
                     [type |-> "peer_joined", payload |-> [peerId |-> c]]))

\* socket.on('code_change')
CodeChange(c, roomId, content, t) ==
    /\ lastEvent = NoEvent
    /\ status[c] = "open"
    /\ lastEvent' = Event("code_change", c, roomId, content, NoCursor)
    /\ UNCHANGED <<status, activeRoom, rooms, joined>>
    /\ IF Falsy(roomId) \/ NotString(content)
       THEN /\ t = Now
            /\ sent' = NoMessages
            /\ UNCHANGED <<documents, lastAccepted>>
       ELSE LET r == roomId.v IN
            /\ documents' = SetDocument(documents, r, content.v, t)
            /\ lastAccepted' = [lastAccepted EXCEPT ![r] = content]
            /\ sent' = Broadcast(rooms, c, r,
                 [type |-> "code_change", payload |-> [content |-> content.v]])

\* socket.on('cursor_update')
CursorUpdate(c, roomId, cursor) ==
    /\ lastEvent = NoEvent
    /\ status[c] = "open"
    /\ lastEvent' = Event("cursor_update", c, roomId, Undefined, cursor)
    /\ UNCHANGED <<documents, status, activeRoom, rooms, joined, lastAccepted>>
    /\ IF Falsy(roomId)
       THEN sent' = NoMessages
       ELSE sent' = Broadcast(rooms, c, roomId.v,
                 [type |-> "cursor_update",
                  payload |-> [peerId |-> c, cursor |-> cursor]])

\* socket.on('disconnect'): the socket has left all its rooms when it fires
Disconnect(c) ==
    /\ lastEvent = NoEvent
    /\ status[c] = "open"
    /\ status' = [status EXCEPT ![c] = "closed"]
    /\ rooms' = [rooms EXCEPT ![c] = {}]
    /\ lastEvent' = Event("disconnect", c, Undefined, Undefined, NoCursor)
    /\ UNCHANGED <<documents, activeRoom, joined, lastAccepted>>
    /\ IF activeRoom[c] # Null
       THEN sent' = Broadcast(rooms', c, activeRoom[c],
                 [type |-> "peer_left", payload |-> [peerId |-> c]])
       ELSE sent' = NoMessages

\* The handler returns; its emitted messages go to the transport and the
\* event loop is free to dispatch the next event.
HandlerReturn ==
    /\ lastEvent # NoEvent
    /\ lastEvent' = NoEvent
    /\ sent' = NoMessages
    /\ UNCHANGED <<documents, status, activeRoom, rooms, joined, lastAccepted>>

\* ==================================================== POST /api/completions
VARIABLES
    apiKey,       \* GEMINI_API_KEY is configured (process.env, fixed for a run)
    phase,        \* handler position: "idle", "awaiting" (axios.post pending), "done"
    reqBody,      \* req.body after the defaults: [code, cursor]
    userPrompt,   \* the two code windows around <CURSOR> sent to the provider
    textResponse, \* response.data?.candidates?.[0]?.content?.parts?.[0]?.text
    response      \* what res was given: [status, body]

completionVars == <<apiKey, phase, reqBody, userPrompt, textResponse, response>>

MaxCursor == 3
WindowChars == 2000

CodeInputs == {<<>>, <<"a", "b">>, <<"a", "b", "c">>}
NoBody == [code |-> <<>>, cursor |-> 0]
NoPrompt == [before |-> <<>>, after |-> <<>>]

Min(a, b) == IF a <= b THEN a ELSE b

\* String.prototype.slice(from, to) for 0 <= from
Slice(s, from, to) == SubSeq(s, Min(from, Len(s)) + 1, Min(to, Len(s)))

\* Bodies of responses and values of JSON.parse: what kind of value it is, the
\* entries of its completions array when it has one, and its text otherwise.
Shaped(items) == [kind |-> "completions", items |-> items, raw |-> ""]
Unshaped(kind, raw) == [kind |-> kind, items |-> <<>>, raw |-> raw]
ErrorBody(msg) == [kind |-> "error", items |-> <<>>, raw |-> msg]
NoResponse == [status |-> 0, body |-> Unshaped("none", "")]

ShapedText == "{\"completions\":[{\"insertText\":\"x\",\"displayText\":\"y\"}]}"
OtherShapeText == "{\"suggestion\":\"x\"}"
NumberText == "42"
ProseText == "Here is the JSON: {\"completions\":[]}"
PlainText == "return x;"
ProviderTexts ==
    {Undefined, Str("")} \cup
    {Str(s) : s \in {ShapedText, OtherShapeText, NumberText, ProseText, PlainText}}
ProviderErrors == {[hasResponse |-> TRUE, status |-> 429],
                   [hasResponse |-> FALSE, status |-> 0]}

\* JSON.parse on the texts above: the value, or that it throws.
ParseJSON(text) ==
    CASE text = ShapedText ->
             [ok |-> TRUE,
              value |-> Shaped(<<[insertText |-> "x", displayText |-> "y"]>>)]
      [] text = OtherShapeText -> [ok |-> TRUE, value |-> Unshaped("object", text)]
      [] text = NumberText -> [ok |-> TRUE, value |-> Unshaped("number", text)]
      [] OTHER -> [ok |-> FALSE, value |-> Unshaped("none", "")]

\* the catch branch: one completion wrapping the raw text
Synthetic(text) ==
    Shaped(<<[insertText |-> text, displayText |-> "Gemini suggestion"]>>)

InitCompletions ==
    /\ apiKey \in BOOLEAN
    /\ phase = "idle"
    /\ reqBody = NoBody
    /\ userPrompt = NoPrompt
    /\ textResponse = Undefined
    /\ response = NoResponse

\* app.post('/api/completions') up to `await axios.post`
PostCompletions(code, cursor) ==
    /\ phase = "idle"
    /\ reqBody' = [code |-> code, cursor |-> cursor]
    /\ IF ~apiKey
       THEN /\ response' = [status |-> 500,
                            body |-> ErrorBody("GEMINI_API_KEY is not configured")]
            /\ phase' = "done"
            /\ UNCHANGED userPrompt
       ELSE /\ userPrompt' =
                [before |-> Slice(code, IF cursor - WindowChars > 0
                                        THEN cursor - WindowChars ELSE 0, cursor),
                 after |-> Slice(code, cursor, cursor + WindowChars)]
            /\ phase' = "awaiting"
            /\ UNCHANGED response
    /\ UNCHANGED <<apiKey, textResponse>>

\* the provider answers 2xx: from `const textResponse` to res.json
ProviderReplies(text) ==
    /\ phase = "awaiting"
    /\ textResponse' = text
    /\ response' =
         IF Falsy(text)
         THEN [status |-> 500, body |-> ErrorBody("No completion returned from Gemini")]
         ELSE [status |-> 200,
               body |-> IF ParseJSON(text.v).ok
                        THEN ParseJSON(text.v).value
                        ELSE Synthetic(text.v)]
    /\ phase' = "done"
    /\ UNCHANGED <<apiKey, reqBody, userPrompt>>

\* axios.post rejects: the outer catch
ProviderFails(err) ==
    /\ phase = "awaiting"
    /\ response' = [status |-> IF err.hasResponse THEN err.status ELSE 500,
                    body |-> ErrorBody("provider error")]
    /\ phase' = "done"
    /\ UNCHANGED <<apiKey, reqBody, userPrompt, textResponse>>

\* the response is on its way; the endpoint takes the next request
ResponseSent ==
    /\ phase = "done"
    /\ phase' = "idle"
    /\ reqBody' = NoBody
    /\ userPrompt' = NoPrompt
    /\ textResponse' = Undefined
    /\ response' = NoResponse
    /\ UNCHANGED apiKey

\* ============================================ transport and browser client
VARIABLES
    inbox,       \* per socket: messages emitted to it, not yet delivered (FIFO)
    accepted,    \* history: number of code_change events accepted so far
    log,         \* history: per socket, numbers of the code_change messages delivered
    store,       \* useRoomStore of one browser tab: socket, roomId, code, peers
    outbox,      \* events the tab's socket emitted that the server has not handled
    edited,      \* history: the tab emitted a code_change on its current socket
    lastSender   \* history: per room, the sender of the last accepted code_change

clientVars == <<inbox, accepted, log, store, outbox, edited, lastSender>>

MaxInbox    == 2       \* messages in flight to one socket
MaxOutbox   == 1       \* events in flight from the tab to the server
MaxAccepted == 2       \* code_change events numbered in the ordering study

DemoRoom  == "r1"      \* the store's initial roomId, 'demo-room'
NoSocket  == 0         \* store.socket = null
NoPeers   == [p \in Conns |-> NoCursor]
WellFormedRooms == {Str(r) : r \in RoomNames}
WellFormedTexts == {Str(s) : s \in Texts}
OrderTexts == {Str("a")}     \* the numbering tells the broadcasts apart

\* validation passed in the code_change handler
Accepted(e) == e.type = "code_change" /\ ~Falsy(e.roomId) /\ ~NotString(e.content)

\* in-order delivery per connection
EnqueueFront(q, msgs) == msgs \o q
Enqueue(q, msgs) == q \o msgs

Tagged(msgs, n) ==
    [i \in 1..Len(msgs) |->
        [type |-> msgs[i].type, payload |-> msgs[i].payload,
         seq |-> IF msgs[i].type = "code_change" THEN n ELSE 0]]

InboxesHaveRoom == \A c \in Conns : Len(inbox[c]) < MaxInbox

\* s.on('initial_state') and s.on('code_change'): setCode
OnCodeIgnoreInitial(code, msg) ==
    IF msg.type = "code_change" THEN msg.payload.content ELSE code
OnCode(code, msg) ==
    IF msg.type \in {"initial_state", "code_change"} THEN msg.payload.content ELSE code

\* s.on('cursor_update') and s.on('peer_left'): setPeers
OnPeers(peers, msg) ==
    CASE msg.type = "cursor_update" ->
             [peers EXCEPT ![msg.payload.peerId] = msg.payload.cursor]
      [] msg.type = "peer_left" -> [peers EXCEPT ![msg.payload.peerId] = NoCursor]
      [] OTHER -> peers

InitClients ==
    /\ inbox = NoMessages
    /\ accepted = 0
    /\ log = [c \in Conns |-> <<>>]
    /\ store = [socket |-> NoSocket, roomId |-> DemoRoom, code |-> "",
                peers |-> NoPeers]
    /\ outbox = <<>>
    /\ edited = FALSE
    /\ lastSender = [r \in RoomNames |-> NoSocket]

\* socket.id is an opaque id the server assigns: ids are numbered in the
\* order the sockets connect
Fresh(ids, c) == status[c] = "idle" /\ \A d \in ids : d < c => status[d] # "idle"

TabIds  == 1..NumTabSockets
PeerIds == Conns \ TabIds

\* the handler returns and the transport takes its messages of the given
\* types for the given sockets, code_change messages numbered n
Transport(receivers, types, n) ==
    /\ HandlerReturn
    /\ inbox' = [c \in Conns |->
                    IF c \in receivers
                    THEN Enqueue(inbox[c],
                                 Tagged(SelectSeq(sent[c], LAMBDA m : m.type \in types), n))
                    ELSE inbox[c]]
    /\ UNCHANGED <<log, store, outbox, edited, completionVars>>

MessageTypes == {"initial_state", "code_change", "cursor_update", "peer_joined",
                 "peer_left"}

\* every message for the browser tab's socket
FlushToTab ==
    /\ Transport({store.socket} \ {NoSocket}, MessageTypes, 0)
    /\ lastSender' = IF Accepted(lastEvent)
                     THEN [lastSender EXCEPT ![lastEvent.roomId.v] = lastEvent.conn]
                     ELSE lastSender
    /\ UNCHANGED accepted

\* the code_change broadcasts for every socket, numbered as accepted
FlushNumbered ==
    /\ accepted' = IF Accepted(lastEvent) THEN accepted + 1 ELSE accepted
    /\ Transport(Conns, {"code_change"}, accepted')
    /\ UNCHANGED lastSender

\* useEffect body: io(BACKEND_URL), setSocket(s), s.emit('join_room', {roomId})
ClientMount(s) ==
    /\ store.socket = NoSocket
    /\ Fresh(TabIds, s)
    /\ Connect(s)
    /\ store' = [store EXCEPT !.socket = s]
    /\ outbox' = <<[type |-> "join_room", roomId |-> store.roomId, content |-> ""]>>
    /\ edited' = FALSE
    /\ UNCHANGED <<inbox, accepted, log, lastSender, completionVars>>

\* setRoom(r) and the effect's cleanup, s.disconnect()
ClientSetRoom(r) ==
    /\ store.socket # NoSocket
    /\ r # store.roomId
    /\ Disconnect(store.socket)
    /\ store' = [store EXCEPT !.roomId = r, !.socket = NoSocket]
    /\ outbox' = <<>>
    /\ inbox' = [inbox EXCEPT ![store.socket] = <<>>]
    /\ UNCHANGED <<accepted, log, edited, lastSender, completionVars>>

\* handleCodeChange(value)
ClientEdit(value) ==
    /\ store.socket # NoSocket
    /\ Len(outbox) < MaxOutbox
    /\ store' = [store EXCEPT !.code = value]
    /\ outbox' = Append(outbox, [type |-> "code_change", roomId |-> store.roomId,
                                 content |-> value])
    /\ edited' = TRUE
    /\ UNCHANGED <<vars, inbox, accepted, log, lastSender, completionVars>>

\* the server handles the tab's next event
ServeClient ==
    /\ outbox # <<>>
    /\ InboxesHaveRoom
    /\ LET e == Head(outbox) IN
         IF e.type = "join_room"
         THEN JoinRoom(store.socket, Str(e.roomId), Now)
         ELSE CodeChange(store.socket, Str(e.roomId), Str(e.content), Now)
    /\ outbox' = Tail(outbox)
    /\ UNCHANGED <<inbox, accepted, log, store, edited, lastSender, completionVars>>

\* a message reaches the tab's socket and its handler runs
ClientDeliver ==
    /\ store.socket # NoSocket
    /\ inbox[store.socket] # <<>>
    /\ LET msg == Head(inbox[store.socket]) IN
         store' = [store EXCEPT !.code = OnCode(@, msg), !.peers = OnPeers(@, msg)]
    /\ inbox' = [inbox EXCEPT ![store.socket] = Tail(@)]
    /\ UNCHANGED <<vars, accepted, log, outbox, edited, lastSender, completionVars>>

\* events of any other Socket.IO client
PeerFrame == UNCHANGED <<inbox, accepted, log, store, outbox, edited, lastSender,
                         completionVars>>

PeerConnect(ids, c) == Fresh(ids, c) /\ Connect(c) /\ PeerFrame

PeerJoin(c, roomId) == InboxesHaveRoom /\ JoinRoom(c, roomId, Now) /\ PeerFrame

PeerEdit(c, roomId, content) ==
    InboxesHaveRoom /\ CodeChange(c, roomId, content, Now) /\ PeerFrame

PeerCursor(c, roomId, cursor) ==
    InboxesHaveRoom /\ CursorUpdate(c, roomId, cursor) /\ PeerFrame

PeerDisconnect(c) ==
    /\ InboxesHaveRoom
    /\ Disconnect(c)
    /\ inbox' = [inbox EXCEPT ![c] = <<>>]
    /\ UNCHANGED <<accepted, log, store, outbox, edited, lastSender, completionVars>>

\* a message reaches a socket of another client
PeerDeliver(c) ==
    /\ inbox[c] # <<>>
    /\ log' = IF Head(inbox[c]).type = "code_change"
              THEN [log EXCEPT ![c] = Append(@, Head(inbox[c]).seq)]
              ELSE log
    /\ inbox' = [inbox EXCEPT ![c] = Tail(@)]
    /\ UNCHANGED <<vars, accepted, store, outbox, edited, lastSender, completionVars>>

\* ========================================================= specifications
allVars == <<vars, completionVars, clientVars>>

\* The completion endpoint's configuration is fixed where it is not studied.
InitServer == Init /\ InitCompletions /\ apiKey /\ InitClients
InitEndpoint == Init /\ InitCompletions /\ InitClients

ServerOnly == UNCHANGED <<completionVars, clientVars>>
EndpointOnly == UNCHANGED <<vars, clientVars>>

\* the realtime server alone, driven by any events
Next ==
    \/ HandlerReturn /\ ServerOnly
    \/ \E c \in 1..NumConns :
        \/ Connect(c) /\ ServerOnly
        \/ \E roomId \in RoomIdInputs, t \in Now..MaxTime :
               JoinRoom(c, roomId, t) /\ ServerOnly
        \/ \E roomId \in RoomIdInputs, content \in ContentInputs, t \in Now..MaxTime :
               CodeChange(c, roomId, content, t) /\ ServerOnly
        \/ \E roomId \in RoomIdInputs, cursor \in Cursors :
               CursorUpdate(c, roomId, cursor) /\ ServerOnly
        \/ Disconnect(c) /\ ServerOnly

Spec == InitServer /\ [][Next]_allVars

\* the completion endpoint alone
NextCompletions ==
    \/ \E code \in CodeInputs, cursor \in 0..MaxCursor :
           PostCompletions(code, cursor) /\ EndpointOnly
    \/ \E text \in ProviderTexts : ProviderReplies(text) /\ EndpointOnly
    \/ \E err \in ProviderErrors : ProviderFails(err) /\ EndpointOnly
    \/ ResponseSent /\ EndpointOnly

SpecCompletions == InitEndpoint /\ [][NextCompletions]_allVars

\* the server, one browser tab and any other clients
NextClients ==
    \/ FlushToTab
    \/ \E s \in TabIds : ClientMount(s)
    \/ \E r \in RoomNames : ClientSetRoom(r)
    \/ \E value \in Texts : ClientEdit(value)
    \/ ServeClient
    \/ ClientDeliver
    \/ \E c \in PeerIds :
        \/ PeerConnect(PeerIds, c)
        \/ \E roomId \in WellFormedRooms : PeerJoin(c, roomId)
        \/ \E roomId \in WellFormedRooms, content \in WellFormedTexts :
               PeerEdit(c, roomId, content)
        \/ \E roomId \in WellFormedRooms, cursor \in Cursors :
               PeerCursor(c, roomId, cursor)
        \/ PeerDisconnect(c)

SpecClients == InitServer /\ [][NextClients]_allVars

\* the server and its sockets' inboxes: the order of delivery
NextOrder ==
    \/ FlushNumbered
    \/ \E c \in Conns :
        \/ PeerConnect(Conns, c)
        \/ \E roomId \in WellFormedRooms : PeerJoin(c, roomId)
        \/ \E roomId \in WellFormedRooms, content \in OrderTexts :
               accepted < MaxAccepted /\ PeerEdit(c, roomId, content)
        \/ \E roomId \in WellFormedRooms, cursor \in Cursors :
               PeerCursor(c, roomId, cursor)
        \/ PeerDisconnect(c)
        \/ PeerDeliver(c)

SpecOrder == InitServer /\ [][NextOrder]_allVars

\* ============================================================== claims
FannedOut == {"code_change", "cursor_update", "peer_joined", "peer_left"}

\* Well-formedness of an event as the claims state it, read off the payload.
RoomGiven(e)  == e.roomId.t = "string" /\ e.roomId.v # ""
TextGiven(e)  == e.content.t = "string"
AcceptedJoin(e)   == e.type = "join_room" /\ RoomGiven(e)
AcceptedChange(e) == e.type = "code_change" /\ RoomGiven(e) /\ TextGiven(e)
Malformed(e) ==
    \/ e.type \in {"join_room", "code_change", "cursor_update"} /\ ~RoomGiven(e)
    \/ e.type = "code_change" /\ ~TextGiven(e)

CodeChangeMsg(s) == [type |-> "code_change", payload |-> [content |-> s]]
InitialStateMsg(snapshot) == [type |-> "initial_state", payload |-> snapshot]
PeerJoinedMsg(c) == [type |-> "peer_joined", payload |-> [peerId |-> c]]
PeerLeftMsg(c) == [type |-> "peer_left", payload |-> [peerId |-> c]]

\* C1: when a code_change with content s is accepted for room r, every other
\* connection that is in r at that moment is sent exactly code_change
\* {content: s}; and a join to r processed while s is still the last accepted
\* content of r is answered with a snapshot whose content is s.
C1_AcceptedChangeReachesMembersAndJoiners ==
    /\ AcceptedChange(lastEvent) =>
          \A d \in Conns \ {lastEvent.conn} :
              lastEvent.roomId.v \in rooms[d]
                  => sent[d] = <<CodeChangeMsg(lastEvent.content.v)>>
    /\ (AcceptedJoin(lastEvent) /\ lastAccepted[lastEvent.roomId.v] # Undefined) =>
          /\ Len(sent[lastEvent.conn]) >= 1
          /\ sent[lastEvent.conn][1].type = "initial_state"
          /\ sent[lastEvent.conn][1].payload.content
                 = lastAccepted[lastEvent.roomId.v].v

\* C1 witness: an accepted code_change "a" for a room has just been sent to
\* another member of that room.
C1_Witness ==
    /\ AcceptedChange(lastEvent)
    /\ lastEvent.content = Str("a")
    /\ \E d \in Conns \ {lastEvent.conn} :
        /\ lastEvent.roomId.v \in rooms[d]
        /\ sent[d] = <<CodeChangeMsg("a")>>

\* C2: for joins to one room id from any connections, interleaved with any
\* other events, the store holds one entry for the id: the first join creates
\* it with content "", later joins leave it as it is, and every joiner is sent
\* an initial_state equal to the room's snapshot at the instant of its join.
C2_FirstJoinCreatesLaterJoinsKeep ==
    [][AcceptedJoin(lastEvent') =>
          LET r == lastEvent'.roomId.v
              c == lastEvent'.conn
          IN  /\ r \notin joined =>
                    documents[r] = Absent /\ documents'[r].content = ""
              /\ r \in joined => documents'[r] = documents[r]
              /\ \A q \in RoomNames \ {r} : documents'[q] = documents[q]
              /\ Len(sent'[c]) >= 1
              /\ sent'[c][1] = InitialStateMsg(documents'[r])]_vars

\* C2, the part the handler guarantees: an accepted join_room for room r
\* creates the entry with content "" when the store has none, never resets or
\* replaces an entry the store has, touches no other room's entry, and the
\* joiner is sent an initial_state equal to the room's snapshot at that instant.
C2_JoinKeepsOneEntryAndSendsSnapshot ==
    [][AcceptedJoin(lastEvent') =>
          LET r == lastEvent'.roomId.v
              c == lastEvent'.conn
          IN  /\ documents'[r] # Absent
              /\ documents[r] # Absent => documents'[r] = documents[r]
              /\ documents[r] = Absent => documents'[r].content = ""
              /\ \A q \in RoomNames \ {r} : documents'[q] = documents[q]
              /\ Len(sent'[c]) >= 1
              /\ sent'[c][1] = InitialStateMsg(documents'[r])]_vars

\* C3: a join_room, code_change or cursor_update whose roomId is empty or
\* missing, and a code_change whose content is not a string, change neither
\* the room store nor any membership and send no message to anybody.
C3_MalformedEventsDropped ==
    [][Malformed(lastEvent') =>
          /\ UNCHANGED <<documents, activeRoom, rooms, status>>
          /\ sent' = NoMessages]_vars

\* C3 witness: a code_change with a room id but non-string content was handled
\* while that room had content and another member.
C3_Witness ==
    /\ lastEvent.type = "code_change"
    /\ RoomGiven(lastEvent)
    /\ ~TextGiven(lastEvent)
    /\ documents[lastEvent.roomId.v].content = "a"
    /\ \E d \in Conns \ {lastEvent.conn} : lastEvent.roomId.v \in rooms[d]

\* C4: the connection that originated an event is sent none of the fanned-out
\* messages of that event, and no connection is ever sent a cursor_update,
\* peer_joined or peer_left that carries its own id.
C4_NoFanOutToOriginator ==
    /\ lastEvent.conn \in Conns =>
          \A i \in 1..Len(sent[lastEvent.conn]) :
              sent[lastEvent.conn][i].type \notin FannedOut
    /\ \A d \in Conns : \A i \in 1..Len(sent[d]) :
          sent[d][i].type \in {"cursor_update", "peer_joined", "peer_left"}
              => sent[d][i].payload.peerId # d

\* C4 witness: a connection that is in two rooms has had its cursor_update
\* forwarded to another connection and not to itself.
C4_Witness ==
    /\ lastEvent.type = "cursor_update"
    /\ Cardinality(rooms[lastEvent.conn]) = 2
    /\ sent[lastEvent.conn] = <<>>
    /\ \E d \in Conns \ {lastEvent.conn} :
        /\ Len(sent[d]) = 1
        /\ sent[d][1].type = "cursor_update"
        /\ sent[d][1].payload.peerId = lastEvent.conn

\* C5: on disconnect of c, peer_left {peerId: c} goes to exactly the other
\* connections that are in the room c last joined; nobody else is sent
\* anything, and nothing at all is sent when c never joined a room.
C5_PeerLeftOnlyToLastRoom ==
    lastEvent.type = "disconnect" =>
        LET c == lastEvent.conn IN
        \A d \in Conns :
            sent[d] = IF /\ d # c
                         /\ activeRoom[c] # Null
                         /\ activeRoom[c] \in rooms[d]
                      THEN <<PeerLeftMsg(c)>>
                      ELSE <<>>

\* C5 witness: a connection that had joined a room has disconnected while
\* another open connection, member of a different room only, was sent nothing.
C5_Witness ==
    /\ lastEvent.type = "disconnect"
    /\ activeRoom[lastEvent.conn] # Null
    /\ \E d \in Conns \ {lastEvent.conn} :
        /\ status[d] = "open"
        /\ rooms[d] # {}
        /\ activeRoom[lastEvent.conn] \notin rooms[d]
        /\ sent[d] = <<>>

\* C6: a room id has an entry in the store if and only if a join_room for it
\* has been processed.
C6_RoomExistsIffJoined ==
    \A r \in RoomNames : (documents[r] # Absent) <=> (r \in joined)

\* C7: every connection is in at most one room.
C7_AtMostOneRoom ==
    \A c \in Conns : Cardinality(rooms[c]) <= 1

\* C8 as stated: the recorded room of a bound connection stays the same for
\* as long as the connection is open.
C8_BindingNeverChanges ==
    [][\A c \in Conns :
          (activeRoom[c] # Null /\ status'[c] = "open")
              => activeRoom'[c] = activeRoom[c]]_vars

\* C8 amended: the recorded room of a connection never returns to unbound, and
\* it changes only in the connection's own accepted join_room, to the room
\* that join names (Unbound -> Bound(r), and Bound(r) -> Bound(r2) without a
\* disconnect in between).
C8_BindingChangesOnlyByOwnJoin ==
    [][\A c \in Conns :
          activeRoom'[c] # activeRoom[c] =>
              /\ AcceptedJoin(lastEvent')
              /\ lastEvent'.conn = c
              /\ activeRoom'[c] = lastEvent'.roomId.v]_vars

\* C8 witness: an open connection has just joined r2 after it had joined r1,
\* and its recorded room is r2.
C8_Witness ==
    /\ AcceptedJoin(lastEvent)
    /\ lastEvent.roomId = Str("r2")
    /\ status[lastEvent.conn] = "open"
    /\ rooms[lastEvent.conn] = {"r1", "r2"}
    /\ activeRoom[lastEvent.conn] = "r2"

\* C9: on an accepted join of c to room r, c alone is sent the snapshot
\* (initial_state), every other connection in r is sent exactly peer_joined
\* {peerId: c}, and nobody else is sent anything.
C9_SnapshotToJoinerNoticeToOthers ==
    AcceptedJoin(lastEvent) =>
        LET r == lastEvent.roomId.v
            c == lastEvent.conn
        IN  \A d \in Conns :
                sent[d] = IF d = c THEN <<InitialStateMsg(documents[r])>>
                          ELSE IF r \in rooms[d] THEN <<PeerJoinedMsg(c)>>
                          ELSE <<>>

\* C9 witness: a join was answered with the snapshot while one other
\* connection, already in the room, was sent the arrival notice.
C9_Witness ==
    /\ AcceptedJoin(lastEvent)
    /\ Len(sent[lastEvent.conn]) = 1
    /\ sent[lastEvent.conn][1].type = "initial_state"
    /\ \E d \in Conns \ {lastEvent.conn} :
        /\ lastEvent.roomId.v \in rooms[d]
        /\ sent[d] = <<PeerJoinedMsg(lastEvent.conn)>>

\* C10: the content of every room in the store is the content of the last
\* accepted code_change for that room, or "" when none has been accepted.
C10_LastWriteWins ==
    \A r \in RoomNames :
        documents[r] # Absent =>
            documents[r].content =
                IF lastAccepted[r] = Undefined THEN "" ELSE lastAccepted[r].v

\* C10 witness: one room holds the content of its last accepted code_change,
\* made after an earlier write, while another room is still empty as created.
C10_Witness ==
    \E r, q \in RoomNames :
        /\ documents[r] # Absent /\ documents[q] # Absent
        /\ lastAccepted[r] = Str("a")
        /\ documents[r].content = "a"
        /\ documents[r].updatedAt > 0
        /\ lastAccepted[q] = Undefined
        /\ documents[q].content = ""

\* C12: a room entry is never removed from the store, whatever happens to its
\* members; and a join to a room that has an accepted code_change and no
\* member left is answered with the content of that code_change, not with "".
C12_RoomNeverRemoved ==
    [][/\ \A r \in RoomNames : documents[r] # Absent => documents'[r] # Absent
       /\ (/\ AcceptedJoin(lastEvent')
           /\ \A d \in Conns : lastEvent'.roomId.v \notin rooms[d]
           /\ lastAccepted[lastEvent'.roomId.v] # Undefined) =>
              /\ Len(sent'[lastEvent'.conn]) >= 1
              /\ sent'[lastEvent'.conn][1].type = "initial_state"
              /\ sent'[lastEvent'.conn][1].payload.content
                     = lastAccepted[lastEvent'.roomId.v].v]_vars

\* C12 witness: the only member of a room has disconnected, and a connection
\* that joined afterwards, now alone in the room, was sent the content "a".
C12_Witness ==
    /\ AcceptedJoin(lastEvent)
    /\ \E d \in Conns \ {lastEvent.conn} :
        /\ status[d] = "closed"
        /\ activeRoom[d] = lastEvent.roomId.v
    /\ \A d \in Conns \ {lastEvent.conn} : lastEvent.roomId.v \notin rooms[d]
    /\ lastAccepted[lastEvent.roomId.v] = Str("a")
    /\ Len(sent[lastEvent.conn]) = 1
    /\ sent[lastEvent.conn][1].payload.content = "a"

\* C13: handling a cursor_update, accepted or dropped, leaves the room store
\* (entries and contents) and every connection's membership as they were; all
\* it does is send {peerId: sender, cursor} to the other connections in the
\* room, and nothing when it is dropped.
C13_CursorUpdateChangesNoState ==
    [][lastEvent'.type = "cursor_update" =>
          /\ UNCHANGED <<documents, activeRoom, rooms, status>>
          /\ \A d \in Conns :
              sent'[d] = IF /\ RoomGiven(lastEvent')
                            /\ d # lastEvent'.conn
                            /\ lastEvent'.roomId.v \in rooms[d]
                         THEN <<[type |-> "cursor_update",
                                 payload |-> [peerId |-> lastEvent'.conn,
                                              cursor |-> lastEvent'.cursor]]>>
                         ELSE <<>>]_vars

\* C13 witness: a cursor_update was forwarded to another member of a room that
\* has content, and to nobody else.
C13_Witness ==
    /\ lastEvent.type = "cursor_update"
    /\ RoomGiven(lastEvent)
    /\ documents[lastEvent.roomId.v] # Absent
    /\ documents[lastEvent.roomId.v].content = "a"
    /\ sent[lastEvent.conn] = <<>>
    /\ \E d \in Conns \ {lastEvent.conn} :
        /\ Len(sent[d]) = 1
        /\ sent[d][1].payload.cursor = lastEvent.cursor

\* C18: a code_change or cursor_update that names a room the sender is not
\* bound to (it never joined, or last joined another room) neither changes
\* that room's entry nor sends anything to the connections in that room.
C18_OnlyMembersAffectRoom ==
    [][(/\ lastEvent'.type \in {"code_change", "cursor_update"}
        /\ RoomGiven(lastEvent')
        /\ activeRoom[lastEvent'.conn] # lastEvent'.roomId.v) =>
           /\ documents'[lastEvent'.roomId.v] = documents[lastEvent'.roomId.v]
           /\ \A d \in Conns :
                lastEvent'.roomId.v \in rooms[d] => sent'[d] = <<>>]_vars

\* C16: with a credential configured and non-empty text from the provider, the
\* response is {completions:[{insertText, displayText}]}: the parsed JSON when
\* the text is JSON of that shape, and otherwise one synthetic completion with
\* the raw text as insertText and the fixed label as displayText.
C16_ResponseHasCompletionsShape ==
    (/\ phase = "done"
     /\ apiKey
     /\ textResponse.t = "string"
     /\ textResponse.v # "") =>
        /\ response.status = 200
        /\ response.body =
             IF /\ ParseJSON(textResponse.v).ok
                /\ ParseJSON(textResponse.v).value.kind = "completions"
             THEN ParseJSON(textResponse.v).value
             ELSE Synthetic(textResponse.v)

\* ---------------------------------------------- claims about the clients
Increasing(q) == \A i, j \in 1..Len(q) : i < j => q[i] < q[j]
Numbers(q) == [i \in 1..Len(q) |-> q[i].seq]

\* the tab's current socket is in the tab's room
Connected == store.socket # NoSocket /\ store.roomId \in rooms[store.socket]

\* nothing is in flight to the tab or from it, and no handler is running
Quiescent ==
    /\ lastEvent = NoEvent
    /\ outbox = <<>>
    /\ store.socket # NoSocket => inbox[store.socket] = <<>>

PeerCount == Cardinality({p \in Conns : store.peers[p] # NoCursor})

\* the tab's socket takes the message at the head of its inbox
Delivers(type) ==
    /\ store.socket # NoSocket
    /\ store'.socket = store.socket
    /\ inbox[store.socket] # <<>>
    /\ Head(inbox[store.socket]).type = type
    /\ inbox'[store.socket] = Tail(inbox[store.socket])

C14_PeerJoinedAddsPeer ==
    [][Delivers("peer_joined") =>
          store'.peers[Head(inbox[store.socket]).payload.peerId] # NoCursor]_allVars

\* C15: when the tab opens a new connection its presence view is empty.
C15_PresenceEmptyOnNewConnection ==
    [][(store'.socket # store.socket /\ store'.socket # NoSocket) =>
          store'.peers = NoPeers]_allVars

\* C17: once a connection has disconnected and nothing is in flight, the tab's
\* presence view has no entry for it.
C17_NoEntryForDisconnectedPeer ==
    \A p \in Conns :
        (status[p] = "closed" /\ Quiescent /\ store.socket # NoSocket)
            => store.peers[p] = NoCursor

\* C19: whenever nothing is in flight, a tab connected to a room displays the
\* content of that room's snapshot in the store.
C19_QuiescentConvergence ==
    (Connected /\ Quiescent) => store.code = documents[store.roomId].content

\* C19 (amended): whenever nothing is in flight, a tab connected to a room
\* displays the content of that room's snapshot in the store, unless the last
\* accepted code_change for the room came from the tab's own connection.
C19_ConvergenceExceptLastSender ==
    (Connected /\ Quiescent /\ lastSender[store.roomId] # store.socket)
        => store.code = documents[store.roomId].content

\* C19 witness: the tab has edited on its connection, another connection's
\* code_change was accepted last, and the tab displays the stored "a".
C19_Witness ==
    /\ Connected
    /\ Quiescent
    /\ edited
    /\ lastSender[store.roomId] \in PeerIds
    /\ store.code = "a"
    /\ documents[store.roomId].content = "a"

\* C20: a tab whose connection has joined exactly one room and has sent no
\* code_change displays, whenever no message to it is in flight, the content
\* of that room's snapshot in the store.
C20_PassiveViewerTracksStore ==
    (/\ store.socket # NoSocket
     /\ rooms[store.socket] = {store.roomId}
     /\ ~edited
     /\ sent[store.socket] = <<>>
     /\ inbox[store.socket] = <<>>)
        => store.code = documents[store.roomId].content

\* C20 witness: a passive tab displays "a", which another connection that is
\* in the room wrote.
C20_Witness ==
    /\ store.socket # NoSocket
    /\ rooms[store.socket] = {store.roomId}
    /\ ~edited
    /\ sent[store.socket] = <<>>
    /\ inbox[store.socket] = <<>>
    /\ lastSender[store.roomId] \in PeerIds
    /\ store.code = "a"
    /\ documents[store.roomId].content = "a"

====
